---------------------------- MODULE Spec2Model ----------------------------
(***************************************************************************)
(* A model of download_captions.py: the caption normalisation and cleaning *)
(* pipeline (_normalize_line, vtt_to_text, clean_transcript_text and its   *)
(* helpers) and the per-video batch loop of main.                          *)
(*                                                                         *)
(* A Python str is a sequence of characters; a character is a one-letter   *)
(* TLA+ string.  The two non-ASCII characters the code treats specially    *)
(* are written by name: "ELLIPSIS" is U+2026 and "BOM" is U+FEFF.          *)
(***************************************************************************)
EXTENDS Integers, Sequences, FiniteSets, TLC

VARIABLES
    \* _normalize_line applied once and twice to one raw line
    npc, nraw, nonce, ntwice,
    \* vtt_to_text (both loops) followed by clean_transcript_text
    vpc, doc, ri, cleaned, prev, fi, buffer, paragraphs, flushed, vtext, vout,
    \* clean_transcript_text applied once and twice to one text
    cpc, cx, c1, c2,
    \* the loop of _dedup_adjacent_sentences over one paragraph
    dpc, dtext, parts, di, dout, prev_norm, dropped, dret,
    \* the loop of _remove_filler_lines over one text
    fpc, ftext, fillers, flines, fidx, kept, fret,
    \* the per-video loop of main
    mpc, videos, midx, attempted, results

normVars == <<npc, nraw, nonce, ntwice>>
vttVars == <<vpc, doc, ri, cleaned, prev, fi, buffer, paragraphs, flushed, vtext, vout>>
cleanVars == <<cpc, cx, c1, c2>>
dedupVars == <<dpc, dtext, parts, di, dout, prev_norm, dropped, dret>>
fillerVars == <<fpc, ftext, fillers, flines, fidx, kept, fret>>
mainVars == <<mpc, videos, midx, attempted, results>>
vars == <<normVars, vttVars, cleanVars, dedupVars, fillerVars, mainVars>>

-----------------------------------------------------------------------------
(* Characters and the str methods the code uses.                           *)

ELLIPSIS == "ELLIPSIS"
BOM == "BOM"

\* the characters str.strip() and the regex class \s treat as white space
WhiteSpace == {" ", "\n", "\r", "\t"}

UpperChars == <<"A","B","C","D","E","F","G","H","I","J","K","L","M",
                "N","O","P","Q","R","S","T","U","V","W","X","Y","Z">>
LowerChars == <<"a","b","c","d","e","f","g","h","i","j","k","l","m",
                "n","o","p","q","r","s","t","u","v","w","x","y","z">>
Digits == {"0","1","2","3","4","5","6","7","8","9"}
Letters == {UpperChars[i] : i \in 1..26} \cup {LowerChars[i] : i \in 1..26}

\* the regex class \w on the characters of the model
IsWordChar(c) == c \in Letters \cup Digits \cup {"_"}

LowerChar(c) ==
    IF \E i \in 1..26 : UpperChars[i] = c
    THEN LowerChars[CHOOSE i \in 1..26 : UpperChars[i] = c]
    ELSE c

UpperChar(c) ==
    IF \E i \in 1..26 : LowerChars[i] = c
    THEN UpperChars[CHOOSE i \in 1..26 : LowerChars[i] = c]
    ELSE c

Lower(s) == [i \in 1..Len(s) |-> LowerChar(s[i])]
Upper(s) == [i \in 1..Len(s) |-> UpperChar(s[i])]

RECURSIVE LStrip(_, _)
LStrip(s, cs) ==
    IF s # <<>> /\ Head(s) \in cs THEN LStrip(Tail(s), cs) ELSE s

RECURSIVE RStrip(_, _)
RStrip(s, cs) ==
    IF s # <<>> /\ s[Len(s)] \in cs THEN RStrip(SubSeq(s, 1, Len(s) - 1), cs) ELSE s

\* str.strip(chars)
StripChars(s, cs) == RStrip(LStrip(s, cs), cs)

\* str.strip()
Strip(s) == StripChars(s, WhiteSpace)

StartsWith(s, p) == Len(s) >= Len(p) /\ SubSeq(s, 1, Len(p)) = p

\* the operator `in` on two strings
Contains(s, sub) ==
    \E i \in 1..(Len(s) - Len(sub) + 1) : SubSeq(s, i, i + Len(sub) - 1) = sub

\* re.sub(r"\s+", " ", s)
RECURSIVE CollapseWs(_)
CollapseWs(s) ==
    IF s = <<>> THEN <<>>
    ELSE IF Head(s) \in WhiteSpace
         THEN <<" ">> \o CollapseWs(LStrip(s, WhiteSpace))
         ELSE <<Head(s)>> \o CollapseWs(Tail(s))

\* sep.join(items)
RECURSIVE Join(_, _)
Join(items, sep) ==
    IF items = <<>> THEN <<>>
    ELSE IF Len(items) = 1 THEN items[1]
    ELSE items[1] \o sep \o Join(Tail(items), sep)

LineBreaks == {"\n", "\r"}

\* the position of the first line break of s, 0 when it has none
FirstBreak(s) ==
    IF \E i \in 1..Len(s) : s[i] \in LineBreaks
    THEN CHOOSE i \in 1..Len(s) :
             s[i] \in LineBreaks /\ \A j \in 1..(i - 1) : s[j] \notin LineBreaks
    ELSE 0

\* str.splitlines(): a break is "\r\n", "\n" or "\r"; no empty last line
RECURSIVE SplitLines(_)
SplitLines(s) ==
    IF s = <<>> THEN <<>>
    ELSE LET b == FirstBreak(s)
             n == IF s[b] = "\r" /\ b < Len(s) /\ s[b + 1] = "\n" THEN 2 ELSE 1
         IN  IF b = 0 THEN <<s>>
             ELSE <<SubSeq(s, 1, b - 1)>> \o SplitLines(SubSeq(s, b + n, Len(s)))

\* unicodedata.normalize("NFKC", s) on the characters of the model: the
\* ellipsis decomposes into three full stops, the others are unchanged
RECURSIVE NFKC(_)
NFKC(s) ==
    IF s = <<>> THEN <<>>
    ELSE IF Head(s) = ELLIPSIS THEN <<".", ".", ".">> \o NFKC(Tail(s))
    ELSE <<Head(s)>> \o NFKC(Tail(s))

-----------------------------------------------------------------------------
(* _normalize_line                                                         *)

\* the index of the first c in s at or after position i, 0 when there is none
RECURSIVE IndexFrom(_, _, _)
IndexFrom(s, c, i) ==
    IF i > Len(s) THEN 0
    ELSE IF s[i] = c THEN i
    ELSE IndexFrom(s, c, i + 1)

\* re.sub(r"<[^>]+>", " ", line)
RECURSIVE RemoveTags(_)
RemoveTags(s) ==
    IF s = <<>> THEN <<>>
    ELSE IF Head(s) = "<" /\ IndexFrom(s, ">", 2) >= 3
         THEN <<" ">> \o RemoveTags(SubSeq(s, IndexFrom(s, ">", 2) + 1, Len(s)))
         ELSE <<Head(s)>> \o RemoveTags(Tail(s))

\* the named character references of the inputs of the model, from the
\* html5 table html.unescape reads
Html5Names ==
    { <<"l","t",";">>, <<"l","t">>, <<"g","t",";">>, <<"g","t">>,
      <<"a","m","p",";">>, <<"a","m","p">> }

Html5(name) ==
    IF name[1] = "l" THEN <<"<">>
    ELSE IF name[1] = "g" THEN <<">">>
    ELSE <<"&">>

\* the characters that end the name of a character reference
RefStop == {"\t", "\n", " ", "<", "&", "#", ";"}

\* the longest run of name characters at the head of s, 32 at most
RECURSIVE RefRun(_, _)
RefRun(s, n) ==
    IF s = <<>> \/ n = 0 \/ Head(s) \in RefStop THEN <<>>
    ELSE <<Head(s)>> \o RefRun(Tail(s), n - 1)

\* the longest prefix of name, of x characters or fewer and 2 or more, that
\* is a character reference; 0 when there is none
RECURSIVE RefPrefix(_, _)
RefPrefix(name, x) ==
    IF x < 2 THEN 0
    ELSE IF SubSeq(name, 1, x) \in Html5Names THEN x
    ELSE RefPrefix(name, x - 1)

\* html.unescape(s), for named references
RECURSIVE Unescape(_)
Unescape(s) ==
    IF s = <<>> THEN <<>>
    ELSE IF Head(s) # "&" THEN <<Head(s)>> \o Unescape(Tail(s))
    ELSE LET run == RefRun(Tail(s), 32)
             semi == Len(s) > Len(run) + 1 /\ s[Len(run) + 2] = ";"
             name == IF semi THEN Append(run, ";") ELSE run
             rest == SubSeq(s, Len(name) + 2, Len(s))
             x == RefPrefix(name, Len(name) - 1)
         IN  IF run = <<>> THEN <<"&">> \o Unescape(Tail(s))
             ELSE IF name \in Html5Names THEN Html5(name) \o Unescape(rest)
             ELSE IF x > 0
                  THEN Html5(SubSeq(name, 1, x)) \o SubSeq(name, x + 1, Len(name))
                       \o Unescape(rest)
             ELSE <<"&">> \o name \o Unescape(rest)

\* line.upper().startswith("WEBVTT")
IsFormatHeader(line) == StartsWith(Upper(line), <<"W","E","B","V","T","T">>)

\* IsIndexLine with the cue-index test lost: index lines are kept as text
IsIndexLineNever(line) == FALSE

\* re.match(r"^\d+$", line)
IsIndexLine(line) == line # <<>> /\ \A i \in 1..Len(line) : line[i] \in Digits

\* "-->" in line
HasTimingArrow(line) == Contains(line, <<"-", "-", ">">>)

_normalize_line(raw) ==
    LET line == Strip(StripChars(raw, {BOM}))
    IN  IF line = <<>> THEN <<>>
        ELSE IF IsFormatHeader(line) THEN <<>>
        ELSE IF IsIndexLine(line) THEN <<>>
        ELSE IF HasTimingArrow(line) THEN <<>>
        ELSE Strip(CollapseWs(Unescape(RemoveTags(line))))


-----------------------------------------------------------------------------
(* clean_transcript_text and its helpers                                   *)

\* the sentence enders of the patterns [.!?...] at lines 157 and 341
Terminators == {".", "!", "?", ELLIPSIS}

DEFAULT_FILLERS ==
    { <<"a","h","a">>, <<"m","m","h","m">>, <<"m","h","m">>, <<"y","e","p">>,
      <<"u","h">>, <<"u","m">>, <<"y","o","u"," ","k","n","o","w">>,
      <<"l","i","k","e">> }

\* the longest simplified line _remove_filler_lines drops
MaxFillerLen == 20

\* re.sub(r"[^\w\s]", "", s)
RemovePunctuation(s) == SelectSeq(s, LAMBDA c : IsWordChar(c) \/ c \in WhiteSpace)

_norm_for_compare(s) ==
    Strip(RemovePunctuation(CollapseWs(Strip(Lower(NFKC(s))))))

\* the position after the white space of s that starts at position i
RECURSIVE SkipWs(_, _)
SkipWs(s, i) ==
    IF i <= Len(s) /\ s[i] \in WhiteSpace THEN SkipWs(s, i + 1) ELSE i

\* the position after lit, matched at position i of s ignoring case; 0 when
\* it does not match there (or i is 0)
MatchLit(s, i, lit) ==
    IF i > 0 /\ i + Len(lit) - 1 <= Len(s)
         /\ Lower(SubSeq(s, i, i + Len(lit) - 1)) = lit
    THEN i + Len(lit) ELSE 0

\* the position after the run of [-\w] characters of s that starts at i
RECURSIVE SkipLangCode(_, _)
SkipLangCode(s, i) ==
    IF i <= Len(s) /\ (IsWordChar(s[i]) \/ s[i] = "-") THEN SkipLangCode(s, i + 1) ELSE i

\* the position after the match of
\* ^\s*Kind:\s*captions\s+Language:\s*[-\w]+\s* on line; 0 when no match
KindLanguageMatch(line) ==
    LET a == MatchLit(line, SkipWs(line, 1), <<"k","i","n","d",":">>)
        b == IF a = 0 THEN 0
             ELSE MatchLit(line, SkipWs(line, a), <<"c","a","p","t","i","o","n","s">>)
        c == IF b = 0 \/ SkipWs(line, b) = b THEN 0
             ELSE MatchLit(line, SkipWs(line, b),
                           <<"l","a","n","g","u","a","g","e",":">>)
        d == IF c = 0 THEN 0 ELSE SkipWs(line, c)
        e == IF d = 0 THEN 0 ELSE SkipLangCode(line, d)
    IN  IF d = 0 \/ e = d THEN 0 ELSE SkipWs(line, e)

_strip_kind_language_prefix(line) ==
    LET m == KindLanguageMatch(line)
    IN  Strip(IF m = 0 THEN line ELSE SubSeq(line, m, Len(line)))

\* re.sub(r"[^A-Za-z ]+", "", line).strip().lower()
Simplified(line) ==
    Lower(Strip(SelectSeq(line, LAMBDA c : c \in Letters \/ c = " ")))

\* FillerLineKept with the length test of line 137 lost
FillerLineKeptAnyLength(raw, fs) ==
    LET line == Strip(raw)
        simplified == Simplified(line)
    IN  IF line = <<>> THEN << <<>> >>
        ELSE IF simplified \in fs THEN <<>>
        ELSE <<raw>>

\* one round of the loop of _remove_filler_lines: what raw adds to kept
FillerLineKept(raw, fs) ==
    LET line == Strip(raw)
        simplified == Simplified(line)
    IN  IF line = <<>> THEN << <<>> >>
        ELSE IF simplified \in fs /\ Len(simplified) <= MaxFillerLen THEN <<>>
        ELSE <<raw>>

\* the list kept after the loop over lines, started from acc
RECURSIVE FillerLoop(_, _, _)
FillerLoop(lines, fs, acc) ==
    IF lines = <<>> THEN acc
    ELSE FillerLoop(Tail(lines), fs, acc \o FillerLineKept(Head(lines), fs))

_remove_filler_lines(text, fs) ==
    Join(FillerLoop(SplitLines(text), fs, <<>>), <<"\n">>)

\* re.split(r"(?<=[.!?...])\s+", s): cur is the piece being read
RECURSIVE SplitSentencesFrom(_, _)
SplitSentencesFrom(s, cur) ==
    IF s = <<>> THEN <<cur>>
    ELSE IF Head(s) \in WhiteSpace /\ cur # <<>> /\ cur[Len(cur)] \in Terminators
         THEN <<cur>> \o SplitSentencesFrom(LStrip(s, WhiteSpace), <<>>)
    ELSE SplitSentencesFrom(Tail(s), Append(cur, Head(s)))

SplitSentences(text) == SplitSentencesFrom(Strip(text), <<>>)

\* DedupSentence with the test that cur_norm is not empty (line 165) lost
DedupSentenceNoGuard(st, p) ==
    LET s == Strip(p)
        cur_norm == _norm_for_compare(s)
    IN  IF s = <<>> THEN st
        ELSE IF cur_norm = st.prev_norm THEN st
        ELSE [out |-> Append(st.out, s), prev_norm |-> cur_norm]

\* one round of the loop of _dedup_adjacent_sentences on part p, from the
\* state st = [out, prev_norm]
DedupSentence(st, p) ==
    LET s == Strip(p)
        cur_norm == _norm_for_compare(s)
    IN  IF s = <<>> THEN st
        ELSE IF cur_norm # <<>> /\ cur_norm = st.prev_norm THEN st
        ELSE [out |-> Append(st.out, s), prev_norm |-> cur_norm]

RECURSIVE DedupLoop(_, _)
DedupLoop(ps, st) ==
    IF ps = <<>> THEN st
    ELSE DedupLoop(Tail(ps), DedupSentence(st, Head(ps)))

_dedup_adjacent_sentences(text) ==
    Join(DedupLoop(SplitSentences(text), [out |-> <<>>, prev_norm |-> <<>>]).out,
         <<" ">>)

\* text.replace("\r\n", "\n").replace("\r", "\n")
RECURSIVE ReplaceCR(_)
ReplaceCR(s) ==
    IF s = <<>> THEN <<>>
    ELSE IF Head(s) = "\r" /\ Len(s) >= 2 /\ s[2] = "\n"
         THEN <<"\n">> \o ReplaceCR(Tail(Tail(s)))
    ELSE IF Head(s) = "\r" THEN <<"\n">> \o ReplaceCR(Tail(s))
    ELSE <<Head(s)>> \o ReplaceCR(Tail(s))

\* re.match(r"^(Title|Date|Link):\s*", line, flags=re.IGNORECASE)
IsMetadataLabel(line) ==
    \/ StartsWith(Lower(line), <<"t","i","t","l","e",":">>)
    \/ StartsWith(Lower(line), <<"d","a","t","e",":">>)
    \/ StartsWith(Lower(line), <<"l","i","n","k",":">>)

\* line.startswith("// filepath:")
IsFilepathComment(line) ==
    StartsWith(line, <<"/","/"," ","f","i","l","e","p","a","t","h",":">>)

\* one round of the header loop of clean_transcript_text: what raw adds to
\* cleaned_lines
HeaderLineKept(raw) ==
    LET line == Strip(StripChars(raw, {BOM}))
        rest == _strip_kind_language_prefix(line)
    IN  IF line = <<>> THEN << <<>> >>
        ELSE IF IsFilepathComment(line) THEN <<>>
        ELSE IF IsMetadataLabel(line) THEN <<>>
        ELSE IF rest = <<>> THEN <<>>
        ELSE <<rest>>

RECURSIVE HeaderLoop(_)
HeaderLoop(lines) ==
    IF lines = <<>> THEN <<>>
    ELSE HeaderLineKept(Head(lines)) \o HeaderLoop(Tail(lines))

\* re.sub(r"\n{3,}", "\n\n", s)
RECURSIVE CapBlankLines(_)
CapBlankLines(s) ==
    IF s = <<>> THEN <<>>
    ELSE IF Len(s) >= 3 /\ s[1] = "\n" /\ s[2] = "\n" /\ s[3] = "\n"
         THEN <<"\n", "\n">> \o CapBlankLines(LStrip(s, {"\n"}))
    ELSE <<Head(s)>> \o CapBlankLines(Tail(s))

\* s.split("\n\n"): cur is the piece being read
RECURSIVE SplitParagraphsFrom(_, _)
SplitParagraphsFrom(s, cur) ==
    IF s = <<>> THEN <<cur>>
    ELSE IF Len(s) >= 2 /\ s[1] = "\n" /\ s[2] = "\n"
         THEN <<cur>> \o SplitParagraphsFrom(Tail(Tail(s)), <<>>)
    ELSE SplitParagraphsFrom(Tail(s), Append(cur, Head(s)))

\* lines 203-205: [re.sub(r"\s+", " ", line).strip() for line in lines]
RECURSIVE NormalizeSpaces(_)
NormalizeSpaces(lines) ==
    IF lines = <<>> THEN <<>>
    ELSE <<Strip(CollapseWs(Head(lines)))>> \o NormalizeSpaces(Tail(lines))

\* line 210: [p.strip() for p in ps if p.strip()]
RECURSIVE StripParagraphs(_)
StripParagraphs(ps) ==
    IF ps = <<>> THEN <<>>
    ELSE (IF Strip(Head(ps)) # <<>> THEN <<Strip(Head(ps))>> ELSE <<>>)
         \o StripParagraphs(Tail(ps))

\* lines 211-212: [q for q in [_dedup_adjacent_sentences(p) for p in ps] if q]
RECURSIVE DedupParagraphs(_)
DedupParagraphs(ps) ==
    IF ps = <<>> THEN <<>>
    ELSE SelectSeq(<<_dedup_adjacent_sentences(Head(ps))>>, LAMBDA q : q # <<>>)
         \o DedupParagraphs(Tail(ps))

NonEmpty(s) == s # <<>>

\* _load_fillers() with TXT_FILLERS and TXT_FILLERS_FILE unset
_load_fillers == DEFAULT_FILLERS

\* lines 174-194: Unicode and line-break normalisation, header stripping
StripHeaders(text) == Join(HeaderLoop(SplitLines(ReplaceCR(NFKC(text)))), <<"\n">>)

\* lines 202-207: spaces normalised per line, blank lines capped
Reassemble(text) ==
    Strip(CapBlankLines(Join(NormalizeSpaces(SplitLines(text)), <<"\n">>)))

\* clean_transcript_text with TXT_REMOVE_INLINE_FILLERS off (its default)
clean_transcript_text(text) ==
    Strip(Join(DedupParagraphs(StripParagraphs(SplitParagraphsFrom(
                   Reassemble(_remove_filler_lines(StripHeaders(text), _load_fillers)),
                   <<>>))),
               <<"\n", "\n">>))

-----------------------------------------------------------------------------
(* Inputs: strings built from a few tokens, and the idle value of each     *)
(* group of variables in the specifications that do not use it.            *)

\* the strings made of n tokens of T or fewer
RECURSIVE TokenStrings(_, _)
TokenStrings(T, n) ==
    IF n = 0 THEN {<<>>}
    ELSE LET S == TokenStrings(T, n - 1)
         IN  S \cup {s \o t : s \in S, t \in T}

\* the sequences of n elements of S or fewer
RECURSIVE SeqsUpTo(_, _)
SeqsUpTo(S, n) ==
    IF n = 0 THEN {<<>>}
    ELSE LET R == SeqsUpTo(S, n - 1)
         IN  R \cup {Append(r, x) : r \in R, x \in S}

IdleNorm == npc = "idle" /\ nraw = <<>> /\ nonce = <<>> /\ ntwice = <<>>

IdleVtt ==
    /\ vpc = "idle" /\ doc = <<>> /\ ri = 0 /\ cleaned = <<>> /\ prev = <<>>
    /\ fi = 0 /\ buffer = <<>> /\ paragraphs = <<>> /\ flushed = <<>>
    /\ vtext = <<>> /\ vout = <<>>

IdleClean == cpc = "idle" /\ cx = <<>> /\ c1 = <<>> /\ c2 = <<>>

IdleDedup ==
    /\ dpc = "idle" /\ dtext = <<>> /\ parts = <<>> /\ di = 0 /\ dout = <<>>
    /\ prev_norm = <<>> /\ dropped = <<>> /\ dret = <<>>

IdleFiller ==
    /\ fpc = "idle" /\ ftext = <<>> /\ fillers = {} /\ flines = <<>>
    /\ fidx = 0 /\ kept = <<>> /\ fret = <<>>

IdleMain ==
    /\ mpc = "idle" /\ videos = 0 /\ midx = 0 /\ attempted = <<>>
    /\ results = <<>>

-----------------------------------------------------------------------------
(* The line normaliser on one raw line, and again on its own result.       *)

MaxNormTokens == 4

NormTokens ==
    { <<"<">>, <<">">>, <<"-">>, <<"&">>, <<"l","t",";">>, <<"g","t",";">>,
      <<"a","m","p",";">>, <<"b">>, <<"1">>, <<" ">>,
      <<"w","e","b","v","t","t">>, <<BOM>> }

NormInit ==
    /\ npc = "raw"
    /\ nraw \in TokenStrings(NormTokens, MaxNormTokens)
    /\ nonce = <<>>
    /\ ntwice = <<>>
    /\ IdleVtt /\ IdleClean /\ IdleDedup /\ IdleFiller /\ IdleMain

NormalizeOnce ==
    /\ npc = "raw"
    /\ nonce' = _normalize_line(nraw)
    /\ npc' = "once"
    /\ UNCHANGED <<nraw, ntwice, vttVars, cleanVars, dedupVars, fillerVars, mainVars>>

NormalizeTwice ==
    /\ npc = "once"
    /\ ntwice' = _normalize_line(nonce)
    /\ npc' = "twice"
    /\ UNCHANGED <<nraw, nonce, vttVars, cleanVars, dedupVars, fillerVars, mainVars>>

NormNext == NormalizeOnce \/ NormalizeTwice

SpecNormalize == NormInit /\ [][NormNext]_vars

\* a match of the tag pattern <[^>]+> somewhere in s
HasTagFragment(s) ==
    \E i \in 1..Len(s) : s[i] = "<" /\ IndexFrom(s, ">", i + 1) >= i + 2

\* C3: the result of _normalize_line never holds a <...> tag fragment or the
\* timing arrow -->, also when the raw line carries them as character
\* references such as &lt;b&gt; or --&gt;.
C3_NoMarkup ==
    npc \in {"once", "twice"} =>
        ~HasTagFragment(nonce) /\ ~HasTimingArrow(nonce)

\* C10: normalising a normalised line returns it unchanged:
\* _normalize_line(_normalize_line(r)) = _normalize_line(r) for every raw r.
C10_NormalizeIdempotent == npc = "twice" => ntwice = nonce

-----------------------------------------------------------------------------
(* vtt_to_text, loop by loop, then clean_transcript_text on its result, as *)
(* _convert_vtt_file calls them.                                           *)

MaxDocLines == 3

\* the three-cue caption file of scenario A
ScenarioA ==
    <<"1", "\n", "0", "0", ":", "0", "0", ":", "0", "1", ".", "0", "0", "0",
      " ", "-", "-", ">", " ", "0", "0", ":", "0", "0", ":", "0", "2", ".",
      "0", "0", "0", "\n", "h", "e", "l", "l", "o", " ", "w", "o", "r", "l",
      "d", "\n", "\n", "2", "\n", "0", "0", ":", "0", "0", ":", "0", "2",
      ".", "0", "0", "0", " ", "-", "-", ">", " ", "0", "0", ":", "0", "0",
      ":", "0", "3", ".", "0", "0", "0", "\n", "h", "e", "l", "l", "o", " ",
      "w", "o", "r", "l", "d", "\n", "\n", "3", "\n", "0", "0", ":", "0",
      "0", ":", "0", "3", ".", "0", "0", "0", " ", "-", "-", ">", " ", "0",
      "0", ":", "0", "0", ":", "0", "5", ".", "0", "0", "0", "\n", "h", "e",
      "l", "l", "o", " ", "w", "o", "r", "l", "d", " ", "a", "g", "a", "i",
      "n", ".", "\n">>

\* raw caption lines: blank, cue index, terminated and open text, a tagged
\* repeat, a metadata banner, a filler (scenario A has the cue timing lines)
VttLines ==
    { <<>>,
      <<"1">>,
      <<"H", "e", "l", "l", "o", ".">>,
      <<"h", "e", "l", "l", "o", ".">>,
      <<"T", "i", "t", "l", "e", ":", " ", "M", "y", " ", "V", "i", "d", "e", "o">>,
      <<"h", "i">>,
      <<"<", "c", ">", "h", "i", "<", "/", "c", ">">>,
      <<"o", "k", ELLIPSIS>>,
      <<"s", "o", "?">>,
      <<"u", "m">> }

VttDocs ==
    {ScenarioA} \cup {Join(ls, <<"\n">>) : ls \in SeqsUpTo(VttLines, MaxDocLines)}

\* re.search(r"[.!?...]$", line)
EndsWithTerminator(line) == line # <<>> /\ line[Len(line)] \in Terminators

VttInit ==
    /\ vpc = "read"
    /\ doc \in VttDocs
    /\ ri = 0 /\ cleaned = <<>> /\ prev = <<>>
    /\ fi = 0 /\ buffer = <<>> /\ paragraphs = <<>> /\ flushed = <<>>
    /\ vtext = <<>> /\ vout = <<>>
    /\ IdleNorm /\ IdleClean /\ IdleDedup /\ IdleFiller /\ IdleMain

vttOthers == <<normVars, cleanVars, dedupVars, fillerVars, mainVars>>

\* one round of the first loop: normalise, skip empty and repeated lines
ReadLine ==
    /\ vpc = "read"
    /\ ri < Len(SplitLines(doc))
    /\ LET line == _normalize_line(SplitLines(doc)[ri + 1])
       IN  IF line = <<>> \/ line = prev
           THEN UNCHANGED <<cleaned, prev>>
           ELSE cleaned' = Append(cleaned, line) /\ prev' = line
    /\ ri' = ri + 1
    /\ UNCHANGED <<vpc, doc, fi, buffer, paragraphs, flushed, vtext, vout, vttOthers>>

\* the first loop ends, the second starts with an empty buffer
ReadDone ==
    /\ vpc = "read"
    /\ ri = Len(SplitLines(doc))
    /\ vpc' = "fold"
    /\ UNCHANGED <<doc, ri, cleaned, prev, fi, buffer, paragraphs, flushed, vtext,
                   vout, vttOthers>>

\* FoldLine with the buffer reset at line 343 lost: a flushed line stays in
\* the buffer and is flushed again with the next paragraph
FoldLineKeepBuffer ==
    /\ vpc = "fold"
    /\ fi < Len(cleaned)
    /\ LET line == cleaned[fi + 1]
           buf == Append(buffer, line)
       IN  /\ buffer' = buf
           /\ IF EndsWithTerminator(line)
              THEN /\ paragraphs' = Append(paragraphs, Join(buf, <<" ">>))
                   /\ flushed' = Append(flushed, buf)
              ELSE UNCHANGED <<paragraphs, flushed>>
    /\ fi' = fi + 1
    /\ UNCHANGED <<vpc, doc, ri, cleaned, prev, vtext, vout, vttOthers>>

\* one round of the second loop: buffer the line, flush on a sentence ender.
\* flushed records the buffers flushed, beside their joined paragraphs.
FoldLine ==
    /\ vpc = "fold"
    /\ fi < Len(cleaned)
    /\ LET line == cleaned[fi + 1]
           buf == Append(buffer, line)
       IN  IF EndsWithTerminator(line)
           THEN /\ paragraphs' = Append(paragraphs, Join(buf, <<" ">>))
                /\ flushed' = Append(flushed, buf)
                /\ buffer' = <<>>
           ELSE /\ buffer' = buf
                /\ UNCHANGED <<paragraphs, flushed>>
    /\ fi' = fi + 1
    /\ UNCHANGED <<vpc, doc, ri, cleaned, prev, vtext, vout, vttOthers>>

\* after the second loop: flush what is left and join the paragraphs
FoldDone ==
    /\ vpc = "fold"
    /\ fi = Len(cleaned)
    /\ LET ps == IF buffer # <<>> THEN Append(paragraphs, Join(buffer, <<" ">>))
                 ELSE paragraphs
       IN  /\ paragraphs' = ps
           /\ vtext' = Join(ps, <<"\n">>)
    /\ flushed' = IF buffer # <<>> THEN Append(flushed, buffer) ELSE flushed
    /\ vpc' = "text"
    /\ UNCHANGED <<doc, ri, cleaned, prev, fi, buffer, vout, vttOthers>>

\* _convert_vtt_file: text = clean_transcript_text(vtt_to_text(vtt_path))
CleanText ==
    /\ vpc = "text"
    /\ vout' = clean_transcript_text(vtext)
    /\ vpc' = "done"
    /\ UNCHANGED <<doc, ri, cleaned, prev, fi, buffer, paragraphs, flushed, vtext,
                   vttOthers>>

VttNext == ReadLine \/ ReadDone \/ FoldLine \/ FoldDone \/ CleanText

SpecVtt == VttInit /\ [][VttNext]_vars

\* C1 as scenario A states it: the pipeline turns the three-cue input into
\* "hello world again.".
C1_ScenarioA ==
    (doc = ScenarioA /\ vpc = "done") =>
        vout = <<"h", "e", "l", "l", "o", " ", "w", "o", "r", "l", "d", " ",
                 "a", "g", "a", "i", "n", ".">>

\* C1 amended: the pipeline turns the three-cue input of scenario A into
\* "hello world hello world again." (the repeated cue line is dropped once,
\* the longer third cue is appended whole).
C1_ScenarioA_Amended ==
    (doc = ScenarioA /\ vpc = "done") =>
        vout = <<"h", "e", "l", "l", "o", " ", "w", "o", "r", "l", "d", " ",
                 "h", "e", "l", "l", "o", " ", "w", "o", "r", "l", "d", " ",
                 "a", "g", "a", "i", "n", ".">>

C1_Witness == doc = ScenarioA /\ vpc = "done" /\ Len(cleaned) = 2

\* a line that ends in one of . ! ? or the ellipsis
C2_Terminated(line) ==
    line # <<>> /\ line[Len(line)] \in {".", "!", "?", ELLIPSIS}

\* the lines read so far that are not empty once normalised
C2_Normalized ==
    SelectSeq([i \in 1..ri |-> _normalize_line(SplitLines(doc)[i])], NonEmpty)

\* ls without the lines equal to their predecessor
RECURSIVE C2_DropRepeats(_)
C2_DropRepeats(ls) ==
    IF Len(ls) <= 1 THEN ls
    ELSE LET r == C2_DropRepeats(SubSeq(ls, 1, Len(ls) - 1))
         IN  IF ls[Len(ls)] = ls[Len(ls) - 1] THEN r ELSE Append(r, ls[Len(ls)])

RECURSIVE C2_Concat(_)
C2_Concat(ss) == IF ss = <<>> THEN <<>> ELSE Head(ss) \o C2_Concat(Tail(ss))

C2_FoldInvariant ==
    /\ cleaned = C2_DropRepeats(C2_Normalized)
    /\ Len(paragraphs) = Len(flushed)
    /\ \A i \in 1..Len(flushed) :
         /\ flushed[i] # <<>>
         /\ paragraphs[i] # <<>>
         /\ paragraphs[i] = Join(flushed[i], <<" ">>)
         /\ (i < Len(flushed) \/ vpc = "fold") =>
                /\ C2_Terminated(flushed[i][Len(flushed[i])])
                /\ C2_Terminated(paragraphs[i])
         /\ \A j \in 1..(Len(flushed[i]) - 1) : ~C2_Terminated(flushed[i][j])
    /\ \A j \in 1..Len(buffer) : ~C2_Terminated(buffer[j])
    /\ vpc = "fold" => C2_Concat(flushed) \o buffer = SubSeq(cleaned, 1, fi)
    /\ vpc \in {"text", "done"} =>
         /\ C2_Concat(flushed) = cleaned
         /\ vtext = Join(paragraphs, <<"\n">>)

C2_EmitStep ==
    /\ Len(paragraphs') \in {Len(paragraphs), Len(paragraphs) + 1}
    /\ Len(paragraphs') = Len(paragraphs) + 1 <=>
         /\ vpc = "fold"
         /\ \/ fi < Len(cleaned) /\ C2_Terminated(cleaned[fi + 1])
            \/ fi = Len(cleaned) /\ buffer # <<>>

\* C2: the fold is a two-state machine.  Kept lines (not empty once
\* normalised, not equal to the previous kept line) are buffered in source
\* order; a paragraph is emitted exactly when the line just buffered ends in
\* a terminator, and once more at the end of input if the buffer is not
\* empty.  So no paragraph is empty, every paragraph but possibly the last
\* ends in a terminator, only the last line of a paragraph ends in one, and
\* the paragraphs' lines in order are exactly the kept lines.
C2_FoldStateMachine == [](C2_FoldInvariant) /\ [][C2_EmitStep]_vars

C2_Witness ==
    /\ vpc = "done"
    /\ Len(flushed) >= 2
    /\ Len(flushed[1]) >= 2
    /\ ~C2_Terminated(paragraphs[Len(paragraphs)])

\* the sentences of a text
C5_Sentences(text) == SelectSeq(SplitSentences(text), NonEmpty)

C5_CleanedSentences(p) == C5_Sentences(clean_transcript_text(p))

\* C5: in the full pipeline no sentence is dropped because of a sentence of
\* another folded paragraph: the sentences of the output are those of each
\* folded paragraph cleaned on its own, in order ("Hello." then "hello."
\* are two paragraphs and both survive).
C5_NoDedupAcrossParagraphs ==
    vpc = "done" =>
        C5_Sentences(vout) =
            C2_Concat([i \in 1..Len(paragraphs) |-> C5_CleanedSentences(paragraphs[i])])

\* a provenance banner: a source-path comment or a title/date/link label
C8_IsBanner(line) == IsFilepathComment(line) \/ IsMetadataLabel(line)

C8_NotBanner(line) == ~C8_IsBanner(line)

\* lines 336-347 on the lines ls, from the buffer buf: the paragraphs
RECURSIVE C8_Fold(_, _)
C8_Fold(ls, buf) ==
    IF ls = <<>> THEN (IF buf # <<>> THEN <<Join(buf, <<" ">>)>> ELSE <<>>)
    ELSE IF C2_Terminated(Head(ls))
         THEN <<Join(Append(buf, Head(ls)), <<" ">>)>> \o C8_Fold(Tail(ls), <<>>)
    ELSE C8_Fold(Tail(ls), Append(buf, Head(ls)))

\* C8: header stripping acts on the lines before the fold: the output is
\* the output for the same caption lines without the banner lines, so the
\* text of a content line that follows a banner is still there.
C8_HeaderStripsSourceLines ==
    vpc = "done" =>
        vout = clean_transcript_text(
                   Join(C8_Fold(SelectSeq(cleaned, C8_NotBanner), <<>>), <<"\n">>))

-----------------------------------------------------------------------------
(* clean_transcript_text on a text without timing or markup, and again on  *)
(* its own result.                                                         *)

MaxCleanTokens == 5

CleanTokens ==
    { <<"U","m">>, <<"u","m">>, <<".">>, <<" ">>, <<"\n">>, <<"b">> }

CleanInit ==
    /\ cpc = "raw"
    /\ cx \in TokenStrings(CleanTokens, MaxCleanTokens)
    /\ c1 = <<>>
    /\ c2 = <<>>
    /\ IdleNorm /\ IdleVtt /\ IdleDedup /\ IdleFiller /\ IdleMain

CleanOnce ==
    /\ cpc = "raw"
    /\ c1' = clean_transcript_text(cx)
    /\ cpc' = "once"
    /\ UNCHANGED <<cx, c2, normVars, vttVars, dedupVars, fillerVars, mainVars>>

CleanTwice ==
    /\ cpc = "once"
    /\ c2' = clean_transcript_text(c1)
    /\ cpc' = "twice"
    /\ UNCHANGED <<cx, c1, normVars, vttVars, dedupVars, fillerVars, mainVars>>

CleanNext == CleanOnce \/ CleanTwice

SpecClean == CleanInit /\ [][CleanNext]_vars

\* C4: clean(clean(x)) = clean(x) for every text x without timing or markup
\* metadata: the output of clean_transcript_text is a fixed point of it
\* (after "Um. um." is reduced to one sentence, a second pass removes
\* nothing).
C4_CleanIdempotent == cpc = "twice" => c2 = c1

-----------------------------------------------------------------------------
(* _dedup_adjacent_sentences on one paragraph, sentence by sentence.       *)

MaxDedupTokens == 5

DedupTokens ==
    { <<"a">>, <<"a", ".">>, <<"A", ".">>, <<"b", ".">>, <<ELLIPSIS>>, <<" ">> }

DedupInit ==
    /\ dpc = "start"
    /\ dtext \in TokenStrings(DedupTokens, MaxDedupTokens)
    /\ parts = <<>> /\ di = 0 /\ dout = <<>> /\ prev_norm = <<>>
    /\ dropped = <<>> /\ dret = <<>>
    /\ IdleNorm /\ IdleVtt /\ IdleClean /\ IdleFiller /\ IdleMain

dedupOthers == <<normVars, vttVars, cleanVars, fillerVars, mainVars>>

\* lines 157-159
DedupSplit ==
    /\ dpc = "start"
    /\ parts' = SplitSentences(dtext)
    /\ dout' = <<>>
    /\ prev_norm' = <<>>
    /\ dpc' = "loop"
    /\ UNCHANGED <<dtext, di, dropped, dret, dedupOthers>>

\* one round of the loop; dropped records what became of each part
DedupStep ==
    /\ dpc = "loop"
    /\ di < Len(parts)
    /\ LET p == parts[di + 1]
           st == DedupSentence([out |-> dout, prev_norm |-> prev_norm], p)
       IN  /\ dout' = st.out
           /\ prev_norm' = st.prev_norm
           /\ dropped' = Append(dropped,
                                IF Strip(p) = <<>> THEN "empty"
                                ELSE IF Len(st.out) = Len(dout) THEN "dropped"
                                ELSE "kept")
    /\ di' = di + 1
    /\ UNCHANGED <<dpc, dtext, parts, dret, dedupOthers>>

\* line 169
DedupReturn ==
    /\ dpc = "loop"
    /\ di = Len(parts)
    /\ dret' = Join(dout, <<" ">>)
    /\ dpc' = "done"
    /\ UNCHANGED <<dtext, parts, di, dout, prev_norm, dropped, dedupOthers>>

DedupNext == DedupSplit \/ DedupStep \/ DedupReturn

SpecDedup == DedupInit /\ [][DedupNext]_vars

\* the comparison key of a sentence
C7_Key(s) == _norm_for_compare(s)

\* the last part before part i that was kept, 0 when there is none
C7_PrevKept(i) ==
    IF \E j \in 1..(i - 1) : dropped[j] = "kept"
    THEN CHOOSE j \in 1..(i - 1) :
             dropped[j] = "kept" /\ \A k \in (j + 1)..(i - 1) : dropped[k] # "kept"
    ELSE 0

\* the parts kept so far, in source order
C7_KeptParts ==
    LET idx == {i \in 1..Len(dropped) : dropped[i] = "kept"}
        nth(k) == CHOOSE i \in idx : Cardinality({j \in idx : j < i}) = k - 1
    IN  [k \in 1..Cardinality(idx) |-> Strip(parts[nth(k)])]

\* C7 as stated: a sentence is dropped if and only if its key equals the key
\* of the previous kept sentence, the kept sentences stay in source order,
\* the output has no two adjacent sentences with the same key, and "S. S."
\* yields one instance of S; sentences with an empty key ("..." repeated)
\* included.
C7_SentenceDedup ==
    dpc \in {"loop", "done"} =>
        /\ \A i \in 1..Len(dropped) :
             dropped[i] # "empty" =>
                 (dropped[i] = "dropped" <=>
                     /\ C7_PrevKept(i) # 0
                     /\ C7_Key(parts[i]) = C7_Key(parts[C7_PrevKept(i)]))
        /\ dout = C7_KeptParts
        /\ \A k \in 1..(Len(dout) - 1) : C7_Key(dout[k]) # C7_Key(dout[k + 1])
        /\ (dpc = "done" /\ Len(parts) = 2
                /\ C7_Key(parts[1]) = C7_Key(parts[2])) => Len(dout) = 1

\* C7 amended: a sentence is dropped if and only if its key is not empty and
\* equals the key of the previous kept sentence; the kept sentences stay in
\* source order; the output has no two adjacent sentences with the same
\* non-empty key; "S. S." with a non-empty key yields one instance of S.
\* Sentences with an empty key (punctuation only) are never dropped.
C7_SentenceDedup_Amended ==
    dpc \in {"loop", "done"} =>
        /\ \A i \in 1..Len(dropped) :
             dropped[i] # "empty" =>
                 (dropped[i] = "dropped" <=>
                     /\ C7_Key(parts[i]) # <<>>
                     /\ C7_PrevKept(i) # 0
                     /\ C7_Key(parts[i]) = C7_Key(parts[C7_PrevKept(i)]))
        /\ dout = C7_KeptParts
        /\ \A k \in 1..(Len(dout) - 1) :
             C7_Key(dout[k]) = <<>> \/ C7_Key(dout[k]) # C7_Key(dout[k + 1])
        /\ (dpc = "done" /\ Len(parts) = 2 /\ C7_Key(parts[1]) # <<>>
                /\ C7_Key(parts[1]) = C7_Key(parts[2])) =>
               (Len(dout) = 1 /\ dret = parts[1])

C7_Witness ==
    /\ dpc = "done"
    /\ \E i \in 1..Len(dropped) : dropped[i] = "dropped"
    /\ \E i \in 1..Len(dropped) : dropped[i] = "kept" /\ C7_Key(parts[i]) = <<>>
    /\ Len(dout) >= 2

-----------------------------------------------------------------------------
(* _remove_filler_lines on one text, line by line.                         *)

MaxFillerLines == 3

\* a phrase of letters one longer than the longest line that is dropped
LongFiller == [i \in 1..(MaxFillerLen + 1) |-> "a"]

\* blank and white-space lines, a filler alone, with punctuation, with
\* spaces around, inside a word, a two-word filler, a line without letters
FillerLines ==
    { <<>>, <<" ">>, <<"u","m">>, <<"U","m","!">>, <<" ","u","m">>,
      <<"u","m","b","r","e","l","l","a">>,
      <<"y","o","u"," ","k","n","o","w">>, <<"1">>, LongFiller }

\* _load_fillers(): the default set, or with phrases of TXT_FILLERS added
FillerSets ==
    { DEFAULT_FILLERS,
      DEFAULT_FILLERS \cup {LongFiller, <<"u","m","b","r","e","l","l","a">>} }

FillerInit ==
    /\ fpc = "start"
    /\ ftext \in {Join(ls, <<"\n">>) : ls \in SeqsUpTo(FillerLines, MaxFillerLines)}
    /\ fillers \in FillerSets
    /\ flines = <<>> /\ fidx = 0 /\ kept = <<>> /\ fret = <<>>
    /\ IdleNorm /\ IdleVtt /\ IdleClean /\ IdleDedup /\ IdleMain

fillerOthers == <<normVars, vttVars, cleanVars, dedupVars, mainVars>>

\* lines 129-130
FillerSplit ==
    /\ fpc = "start"
    /\ flines' = SplitLines(ftext)
    /\ kept' = <<>>
    /\ fpc' = "loop"
    /\ UNCHANGED <<ftext, fillers, fidx, fret, fillerOthers>>

\* one round of the loop
FillerStep ==
    /\ fpc = "loop"
    /\ fidx < Len(flines)
    /\ kept' = kept \o FillerLineKept(flines[fidx + 1], fillers)
    /\ fidx' = fidx + 1
    /\ UNCHANGED <<fpc, ftext, fillers, flines, fret, fillerOthers>>

\* line 140
FillerReturn ==
    /\ fpc = "loop"
    /\ fidx = Len(flines)
    /\ fret' = Join(kept, <<"\n">>)
    /\ fpc' = "done"
    /\ UNCHANGED <<ftext, fillers, flines, fidx, kept, fillerOthers>>

FillerNext == FillerSplit \/ FillerStep \/ FillerReturn

SpecFiller == FillerInit /\ [][FillerNext]_vars

\* a line reduced to letters and spaces, trimmed and lowercased
C9_Reduced(raw) ==
    Lower(Strip(SelectSeq(raw, LAMBDA c : c \in Letters \/ c = " ")))

C9_IsBlank(raw) == \A i \in 1..Len(raw) : raw[i] \in WhiteSpace

C9_Survives(raw) ==
    ~ ( /\ ~C9_IsBlank(raw)
        /\ C9_Reduced(raw) \in fillers
        /\ Len(C9_Reduced(raw)) <= 20 )

C9_BlankToEmpty(raw) == IF C9_IsBlank(raw) THEN <<>> ELSE raw

\* C9 as stated: a non-blank line is dropped if and only if, reduced to
\* letters and spaces, trimmed and lowercased, it equals a filler phrase and
\* is 20 characters long or shorter; every other line, blank lines included,
\* is kept unchanged and in its original order.
C9_FillerLineMode ==
    fpc \in {"loop", "done"} =>
        kept = SelectSeq(SubSeq(flines, 1, fidx), C9_Survives)

\* C9 amended: a non-blank line is dropped if and only if, reduced to
\* letters and spaces, trimmed and lowercased, it equals a filler phrase and
\* is 20 characters long or shorter; every other non-blank line is kept
\* unchanged and in its original order, and a blank line (empty or of white
\* space only) is kept in its place as an empty line.
C9_FillerLineMode_Amended ==
    /\ fpc \in {"loop", "done"} =>
         LET ls == SelectSeq(SubSeq(flines, 1, fidx), C9_Survives)
         IN  kept = [i \in 1..Len(ls) |-> C9_BlankToEmpty(ls[i])]
    /\ fpc = "done" => fret = Join(kept, <<"\n">>) /\ fidx = Len(flines)

C9_Witness ==
    /\ fpc = "done"
    /\ Len(flines) = 3
    /\ \E i \in 1..3 : ~C9_Survives(flines[i])
    /\ \E i \in 1..3 : flines[i] # <<>> /\ C9_IsBlank(flines[i])
    /\ \E i \in 1..3 : C9_Reduced(flines[i]) \in fillers /\ C9_Survives(flines[i])

-----------------------------------------------------------------------------
(* The per-video loop of main.  What download_subs and _convert_vtt_file   *)
(* meet outside the program (the extraction service, the disk) is chosen   *)
(* at each call.                                                           *)

MaxVideos == 3

\* the ways download_subs returns None for the path: a DownloadError (line
\* 377), no info (line 380), no caption file found (line 404)
NoResult == {"download_error", "no_info", "no_vtt"}

MainInit ==
    /\ mpc = "loop"
    /\ videos \in 1..MaxVideos
    /\ midx = 0
    /\ attempted = <<>>
    /\ results = <<>>
    /\ IdleNorm /\ IdleVtt /\ IdleClean /\ IdleDedup /\ IdleFiller

mainOthers == <<normVars, vttVars, cleanVars, dedupVars, fillerVars>>

\* lines 438-443: the next video; without a caption file the loop continues
DownloadSubs ==
    /\ mpc = "loop"
    /\ midx < videos
    /\ attempted' = Append(attempted, midx + 1)
    /\ \E o \in NoResult \cup {"vtt"} :
         IF o = "vtt"
         THEN mpc' = "convert" /\ UNCHANGED <<midx, results>>
         ELSE /\ results' = Append(results, o)
              /\ midx' = midx + 1
              /\ UNCHANGED mpc
    /\ UNCHANGED <<videos, mainOthers>>

\* lines 444-447: _convert_vtt_file writes the text; an OSError of
\* write_text (lines 252, 262) is caught nowhere and ends main
ConvertVtt ==
    /\ mpc = "convert"
    /\ \E w \in {"written", "write_error"} :
         IF w = "written"
         THEN /\ results' = Append(results, "saved")
              /\ midx' = midx + 1
              /\ mpc' = "loop"
         ELSE mpc' = "crashed" /\ UNCHANGED <<midx, results>>
    /\ UNCHANGED <<videos, attempted, mainOthers>>

\* the loop is over
LoopDone ==
    /\ mpc = "loop"
    /\ midx = videos
    /\ mpc' = "leftovers"
    /\ UNCHANGED <<videos, midx, attempted, results, mainOthers>>

\* lines 449-462: the caption files left in DEST_DIR are converted too
Leftovers ==
    /\ mpc = "leftovers"
    /\ \E w \in {"none", "written", "write_error"} :
         mpc' = IF w = "write_error" THEN "crashed" ELSE "done"
    /\ UNCHANGED <<videos, midx, attempted, results, mainOthers>>

MainNext == DownloadSubs \/ ConvertVtt \/ LoopDone \/ Leftovers

SpecMain == MainInit /\ [][MainNext]_vars

\* C6: a failure for one video (no captions, a download error, a disk write
\* failure while converting) gives no result for that video only and the
\* loop goes on: when main has ended, every selected video has been
\* attempted.
C6_BatchContinues ==
    mpc \in {"leftovers", "done", "crashed"} =>
        attempted = [i \in 1..videos |-> i]

=============================================================================
